---- MODULE Spec2Model ----
(***************************************************************************)
(* A model of generate_codes.py: the CodeGenerator class (character set    *)
(* construction, output file plan, rejection sampling of unique codes,     *)
(* splitting of the codes over CSV files) and the main() flow driving it.  *)
(*                                                                         *)
(* A Python str is a sequence of one-character strings; None is the value  *)
(* None below; a CSV row is the sequence of fields handed to writerow.     *)
(***************************************************************************)
EXTENDS Integers, Sequences, FiniteSets, TLC

VARIABLES
    args,             \* the inputs of the run (command line / call arguments)
    pc,               \* position in main() / in the method under study
    custom_charset,   \* main(): the answer to the prompt, or None
    filename,         \* main(): the output file name in use
    codes_count,      \* self.codes_count
    codes_length,     \* self.codes_length
    charset,          \* self.charset
    codes_set,        \* self.codes_set
    prefix,           \* self.prefix
    suffix,           \* self.suffix
    filename_base,    \* self.filename_base
    filename_ext,     \* self.filename_ext
    maxlines,         \* self.maxlines
    save_directory,   \* self.save_directory
    codes_generated,  \* __generate_codes: the local counter
    code,             \* __generate_codes: the candidate of the last iteration
    progress,         \* the `current` value of every __update_progress call
    codes_list,       \* __save_codes: list(self.codes_set)
    file_index,       \* __save_codes: the loop variable
    dirs,             \* file system: the directories that exist
    files,            \* file system: path -> rows written
    error,            \* the message of the exception raised, "" when none
    probe             \* __check_probability study: inputs and outcome

vars == <<args, pc, custom_charset, filename, codes_count, codes_length,
          charset, codes_set, prefix, suffix, filename_base, filename_ext,
          maxlines, save_directory, codes_generated, code, progress,
          codes_list, file_index, dirs, files, error, probe>>

(***************************************************************************)
(* Bounds of the model.                                                    *)
(***************************************************************************)
MaxCount == 2        \* largest requested number of codes
MaxLength == 2       \* largest requested code length
MaxArgLen == 2       \* longest omit / add / custom string of the builder study
MaxChars == 3        \* longest character set of a run of main()
MaxProbeChars == 3   \* largest character set size of the capacity study
MaxProbeLength == 54 \* largest code length of the capacity study
MaxExcess == 2       \* largest count - combinations of the capacity study

(***************************************************************************)
(* Python values.                                                          *)
(***************************************************************************)
None == <<"<None>">>
NotAnInt == "x"                  \* a count/length that int() rejects
NoCode == <<"<no candidate>">>   \* `code` before the first iteration
BEL == "\\x07"                   \* chr(7): a character outside string.printable

Range(s) == {s[i] : i \in DOMAIN s}

digits == <<"0", "1", "2", "3", "4", "5", "6", "7", "8", "9">>

ascii_lowercase ==
    <<"a", "b", "c", "d", "e", "f", "g", "h", "i", "j", "k", "l", "m",
      "n", "o", "p", "q", "r", "s", "t", "u", "v", "w", "x", "y", "z">>

ascii_uppercase ==
    <<"A", "B", "C", "D", "E", "F", "G", "H", "I", "J", "K", "L", "M",
      "N", "O", "P", "Q", "R", "S", "T", "U", "V", "W", "X", "Y", "Z">>

ascii_letters == ascii_lowercase \o ascii_uppercase

punctuation ==
    <<"!", "\"", "#", "$", "%", "&", "\\x27", "(", ")", "*", "+", ",", "-",
      ".", "/", ":", ";", "<", "=", ">", "?", "@", "[", "\\", "]", "^",
      "_", "\\x60", "{", "|", "}", "~">>

\* " \t\n\r\x0b\x0c"; the characters that a TLA+ string cannot hold (the
\* apostrophe, the backquote, \x0b) are written as their escapes
whitespace == <<" ", "\t", "\n", "\r", "\\x0b", "\f">>

printable == digits \o ascii_letters \o punctuation \o whitespace

RECOMMENDED_CHARS ==
    <<"2", "3", "4", "5", "6", "7", "9", "A", "C", "D", "E", "F", "G", "H",
      "J", "K", "L", "M", "N", "P", "R", "S", "T", "U", "V", "X", "Y", "Z">>

\* [char for char in s if char not in string.printable]
InvalidChars(s) == SelectSeq(s, LAMBDA c : c \notin Range(printable))

\* len(s) != len(set(s))
HasDuplicates(s) == Len(s) # Cardinality(Range(s))

\* `if s:` for a str or None
Truthy(s) == s # None /\ s # <<>>

(***************************************************************************)
(* CodeGenerator.build_character_set.  Each stage yields the value of      *)
(* self.charset it leaves behind and the message of the ValueError it      *)
(* raises ("" when it raises none).                                         *)
(***************************************************************************)
Result(cs, err) == [charset |-> cs, error |-> err]

ValidCase(case) == case \in {"lower", "mixed", "upper"}

AlphaSet(case) ==
    IF case = "lower" THEN ascii_lowercase
    ELSE IF case = "mixed" THEN ascii_letters
    ELSE ascii_uppercase

SelectBase(old, name, case, custom_chars) ==
    IF name = "recommended" THEN Result(RECOMMENDED_CHARS, "")
    ELSE IF name = "numeric" THEN Result(digits, "")
    ELSE IF name = "alpha" THEN Result(AlphaSet(case), "")
    ELSE IF name = "alphanumeric" THEN Result(digits \o AlphaSet(case), "")
    ELSE IF name = "custom" THEN
        IF Truthy(custom_chars) THEN
            IF HasDuplicates(custom_chars)
            THEN Result(old, "Custom character set contains duplicate characters.")
            ELSE IF InvalidChars(custom_chars) # <<>>
            THEN Result(old, "Invalid characters in custom character set")
            ELSE Result(custom_chars, "")
        ELSE Result(old, "Custom character set is empty.")
    ELSE Result(old, "Invalid charset")

\* ApplyOmit without the check of omit's characters
ApplyOmit_Unchecked(cs, omit) ==
    IF omit # None
    THEN Result(SelectSeq(cs, LAMBDA c : c \notin Range(omit)), "")
    ELSE Result(cs, "")

ApplyOmit(cs, omit) ==
    IF omit # None THEN
        IF InvalidChars(omit) # <<>>
        THEN Result(cs, "Invalid characters in omit character set")
        ELSE Result(SelectSeq(cs, LAMBDA c : c \notin Range(omit)), "")
    ELSE Result(cs, "")

\* ApplyAdd appending only the characters the set does not hold yet
ApplyAdd_Deduplicated(cs, add) ==
    IF add # None THEN
        IF InvalidChars(add) # <<>>
        THEN Result(cs, "Invalid characters in add character set")
        ELSE Result(cs \o SelectSeq(add, LAMBDA c : c \notin Range(cs)), "")
    ELSE Result(cs, "")

ApplyAdd(cs, add) ==
    IF add # None THEN
        IF InvalidChars(add) # <<>>
        THEN Result(cs, "Invalid characters in add character set")
        ELSE Result(cs \o add, "")
    ELSE Result(cs, "")

CheckNotEmpty(cs) ==
    IF cs = <<>> THEN Result(cs, "Used character set is empty.")
    ELSE Result(cs, "")

build_character_set(old, name, case, omit, add, custom_chars) ==
    IF ~ValidCase(case) THEN Result(old, "Invalid case")
    ELSE LET b == SelectBase(old, name, case, custom_chars) IN
         IF b.error # "" THEN b
         ELSE LET o == ApplyOmit(b.charset, omit) IN
              IF o.error # "" THEN o
              ELSE LET a == ApplyAdd(o.charset, add) IN
                   IF a.error # "" THEN a
                   ELSE CheckNotEmpty(a.charset)

(***************************************************************************)
(* Library functions the program calls.                                    *)
(***************************************************************************)
Max(a, b) == IF a > b THEN a ELSE b
Min(a, b) == IF a < b THEN a ELSE b

\* the largest index of character c in p, 0 when absent (str.rfind, 1-based)
RFind(p, c) == LET at == {i \in DOMAIN p : p[i] = c} IN
               IF at = {} THEN 0 ELSE CHOOSE i \in at : \A j \in at : j <= i

\* os.path.splitext (genericpath._splitext with sep "/" and extsep "."):
\* the extension starts at the last dot of the last path component, unless
\* only dots precede it there
splitext(p) ==
    LET sepIndex == RFind(p, "/")
        dotIndex == RFind(p, ".")
    IN  IF /\ dotIndex > sepIndex
           /\ \E k \in (sepIndex + 1)..(dotIndex - 1) : p[k] # "."
        THEN <<SubSeq(p, 1, dotIndex - 1), SubSeq(p, dotIndex, Len(p))>>
        ELSE <<p, <<>>>>

\* os.path.join(a, b) on POSIX
path_join(a, b) ==
    IF b # <<>> /\ b[1] = "/" THEN b
    ELSE IF a = <<>> \/ a[Len(a)] = "/" THEN a \o b
    ELSE a \o <<"/">> \o b

\* str(n) for n >= 0, as an f-string formats it
RECURSIVE Decimal(_)
Decimal(n) ==
    IF n < 10 THEN <<digits[n + 1]>>
    ELSE Decimal(n \div 10) \o <<digits[(n % 10) + 1]>>

\* the value of a string of decimal digits
RECURSIVE DigitsValue(_)
DigitsValue(s) ==
    IF s = <<>> THEN 0
    ELSE 10 * DigitsValue(SubSeq(s, 1, Len(s) - 1))
         + ((CHOOSE d \in DOMAIN digits : digits[d] = s[Len(s)]) - 1)

\* int(x): [ok, value]; an optional sign and decimal digits convert, None
\* (TypeError) and anything else (ValueError) do not
int(x) ==
    IF x = None \/ x = <<>> THEN [ok |-> FALSE, value |-> 0]
    ELSE LET signed == x[1] \in {"+", "-"}
             body == IF signed THEN Tail(x) ELSE x
         IN  IF body = <<>> \/ \E i \in DOMAIN body : body[i] \notin Range(digits)
             THEN [ok |-> FALSE, value |-> 0]
             ELSE [ok |-> TRUE,
                   value |-> IF x[1] = "-" THEN 0 - DigitsValue(body)
                             ELSE DigitsValue(body)]

\* the ASCII characters str.split() treats as separators (str.isspace)
split_whitespace == Range(whitespace) \cup {"\\x1c", "\\x1d", "\\x1e", "\\x1f"}

\* str.split() without arguments: the maximal runs of non-whitespace
RECURSIVE SplitFrom(_, _, _)
SplitFrom(s, word, out) ==
    IF s = <<>> THEN (IF word = <<>> THEN out ELSE Append(out, word))
    ELSE IF s[1] \in split_whitespace
         THEN SplitFrom(Tail(s), <<>>, IF word = <<>> THEN out ELSE Append(out, word))
         ELSE SplitFrom(Tail(s), Append(word, s[1]), out)

split(s) == SplitFrom(s, <<>>, <<>>)

(***************************************************************************)
(* Python's int is unbounded: the numbers of the capacity check are kept   *)
(* as little-endian sequences of limbs in base LimbBase, without leading   *)
(* zero limbs (zero is the empty sequence).                                *)
(***************************************************************************)
LimbBase == 2^15
MantissaBits == 53       \* the significand of a Python float (binary64)

RECURSIVE Big(_)
Big(n) == IF n = 0 THEN <<>> ELSE <<n % LimbBase>> \o Big(n \div LimbBase)

\* x * m + carry for a small m >= 1
RECURSIVE BigMulAdd(_, _, _)
BigMulAdd(x, m, carry) ==
    IF x = <<>> THEN Big(carry)
    ELSE LET t == x[1] * m + carry IN
         <<t % LimbBase>> \o BigMulAdd(Tail(x), m, t \div LimbBase)

\* chars_number ** codes_length, multiplying by the largest power of m that
\* fits a limb at a time
RECURSIVE BigPow(_, _)
BigPow(m, e) ==
    IF e = 0 THEN <<1>>
    ELSE LET j == CHOOSE j \in 1..Min(e, 15) :
                      /\ m^j <= LimbBase
                      /\ (j = Min(e, 15) \/ m^(j + 1) > LimbBase)
         IN  BigMulAdd(BigPow(m, e - j), m^j, 0)

RECURSIVE BigLessFrom(_, _, _)
BigLessFrom(x, y, i) ==
    IF i = 0 THEN FALSE
    ELSE IF x[i] # y[i] THEN x[i] < y[i]
    ELSE BigLessFrom(x, y, i - 1)

BigLess(x, y) ==
    IF Len(x) # Len(y) THEN Len(x) < Len(y) ELSE BigLessFrom(x, y, Len(x))

RECURSIVE BigStrip(_)
BigStrip(x) ==
    IF x # <<>> /\ x[Len(x)] = 0 THEN BigStrip(SubSeq(x, 1, Len(x) - 1)) ELSE x

\* x - y for x >= y, limb by limb with a borrow
RECURSIVE BigSubFrom(_, _, _)
BigSubFrom(x, y, borrow) ==
    IF x = <<>> THEN <<>>
    ELSE LET sub == (IF y = <<>> THEN 0 ELSE y[1]) + borrow
             rest == IF y = <<>> THEN <<>> ELSE Tail(y)
         IN  IF x[1] >= sub
             THEN <<x[1] - sub>> \o BigSubFrom(Tail(x), rest, 0)
             ELSE <<x[1] + LimbBase - sub>> \o BigSubFrom(Tail(x), rest, 1)

BigSub(x, y) == BigStrip(BigSubFrom(x, y, 0))

\* x * 2^k: whole limbs of zeros below x * 2^(the remaining bits)
BigShift(x, k) ==
    IF x = <<>> THEN <<>>
    ELSE [i \in 1..(k \div 15) |-> 0] \o BigMulAdd(x, 2^(k % 15), 0)

(***************************************************************************)
(* CodeGenerator.__check_probability and the test `probability > 1`.        *)
(* combinations is an exact int.  probability = codes_count / combinations *)
(* is the quotient rounded to the nearest float (ties to even): above 1    *)
(* the nearest floats are 1 and 1 + 2^-(MantissaBits-1), so the quotient   *)
(* rounds to a float greater than 1 exactly when it exceeds                *)
(* 1 + 2^-MantissaBits, that is when (count - comb) * 2^MantissaBits > comb.*)
(***************************************************************************)
combinations(chars_number, length) == BigPow(chars_number, length)

probability_above_one(count, chars_number, length) ==
    LET comb == combinations(chars_number, length) IN
    /\ BigLess(comb, count)
    /\ BigLess(comb, BigShift(BigSub(count, comb), MantissaBits))

(***************************************************************************)
(* Messages of the ValueErrors raised outside build_character_set.         *)
(***************************************************************************)
MsgNotIntegers == "Codes_count and codes_length must be integers."
MsgNotPositive == "Codes_count and codes_length must be greater than 0."
MsgMaxlines == "Maxlines must be an integer greater than 0."
MsgIntLiteral == "invalid literal for int()"
MsgCapacity == "Cannot generate codes"
MsgWrite == "Could not write into the file."
MsgPromptEmpty == "Custom character set cannot be empty."

\* datetime.now().strftime("%Y%m%d%H%M%S"): one representative instant
Timestamp == <<"2", "0", "2", "4", "0", "1", "0", "1", "0", "0", "0", "0", "0", "0">>

DefaultSaveDirectory == <<"c", "o", "d", "e", "s">>

Raise(msg) == /\ error' = msg
              /\ pc' = "done"

(***************************************************************************)
(* main(): the prompt for the custom character set and the file name.      *)
(***************************************************************************)
MainStart ==
    /\ pc = "main"
    /\ LET answer == IF args.charset = "custom" THEN args.custom_chars ELSE None IN
       /\ custom_charset' = answer
       /\ IF args.charset = "custom" /\ ~Truthy(answer)
          THEN /\ Raise(MsgPromptEmpty)
               /\ UNCHANGED filename
          ELSE /\ filename' = IF args.filename # None THEN args.filename
                              ELSE <<"c", "o", "d", "e", "s", "_">> \o Timestamp
                                   \o <<".", "c", "s", "v">>
               /\ pc' = "init"
               /\ UNCHANGED error
    /\ UNCHANGED <<args, codes_count, codes_length, charset, codes_set, prefix,
                   suffix, filename_base, filename_ext, maxlines, save_directory,
                   codes_generated, code, progress, codes_list, file_index,
                   dirs, files, probe>>

(***************************************************************************)
(* CodeGenerator.__init__                                                  *)
(***************************************************************************)
Construct ==
    /\ pc = "init"
    /\ LET c == int(args.count)
           l == int(args.length)
       IN  IF ~c.ok \/ ~l.ok
           THEN /\ Raise(MsgNotIntegers)
                /\ UNCHANGED <<codes_count, codes_length, charset, codes_set,
                               prefix, suffix>>
           ELSE IF c.value < 1 \/ l.value < 1
           THEN /\ Raise(MsgNotPositive)
                /\ codes_count' = c.value
                /\ codes_length' = l.value
                /\ UNCHANGED <<charset, codes_set, prefix, suffix>>
           ELSE /\ codes_count' = c.value
                /\ codes_length' = l.value
                /\ charset' = <<>>
                /\ codes_set' = {}
                /\ prefix' = args.prefix
                /\ suffix' = args.suffix
                /\ pc' = "build_character_set"
                /\ UNCHANGED error
    /\ UNCHANGED <<args, custom_charset, filename, filename_base, filename_ext,
                   maxlines, save_directory, codes_generated, code, progress,
                   codes_list, file_index, dirs, files, probe>>

(***************************************************************************)
(* The call of build_character_set.                                        *)
(***************************************************************************)
BuildCharacterSet ==
    /\ pc = "build_character_set"
    /\ LET r == build_character_set(charset, args.charset, args.case, args.omit,
                                    args.add, custom_charset)
       IN  /\ charset' = r.charset
           /\ IF r.error # "" THEN Raise(r.error)
              ELSE pc' = "build_file" /\ UNCHANGED error
    /\ UNCHANGED <<args, custom_charset, filename, codes_count, codes_length,
                   codes_set, prefix, suffix, filename_base, filename_ext,
                   maxlines, save_directory, codes_generated, code, progress,
                   codes_list, file_index, dirs, files, probe>>

\* BuildFile creating the save directory before it validates maxlines
BuildFile_MakesDirectory ==
    /\ pc = "build_file"
    /\ dirs' = dirs \cup {DefaultSaveDirectory}
    /\ LET parts == splitext(filename)
           given == int(args.maxlines)
           lines == IF args.maxlines = None THEN codes_count ELSE given.value
       IN  /\ filename_base' = parts[1]
           /\ filename_ext' = IF parts[2] = <<>> THEN <<".", "c", "s", "v">>
                              ELSE parts[2]
           /\ IF args.maxlines # None /\ ~given.ok
              THEN /\ Raise(MsgIntLiteral)
                   /\ UNCHANGED <<maxlines, save_directory>>
              ELSE IF lines < 1
              THEN /\ maxlines' = lines
                   /\ Raise(MsgMaxlines)
                   /\ UNCHANGED save_directory
              ELSE /\ maxlines' = lines
                   /\ save_directory' = DefaultSaveDirectory
                   /\ pc' = "run"
                   /\ UNCHANGED error
    /\ UNCHANGED <<args, custom_charset, filename, codes_count, codes_length,
                   charset, codes_set, prefix, suffix, codes_generated, code,
                   progress, codes_list, file_index, files, probe>>

(***************************************************************************)
(* CodeGenerator.build_file, called with the file name and maxlines (the   *)
(* argument as typed, which argparse and build_file convert with int());   *)
(* the save directory keeps its default.                                   *)
(***************************************************************************)
BuildFile ==
    /\ pc = "build_file"
    /\ LET parts == splitext(filename)
           given == int(args.maxlines)
           lines == IF args.maxlines = None THEN codes_count ELSE given.value
       IN  /\ filename_base' = parts[1]
           /\ filename_ext' = IF parts[2] = <<>> THEN <<".", "c", "s", "v">>
                              ELSE parts[2]
           /\ IF args.maxlines # None /\ ~given.ok
              THEN /\ Raise(MsgIntLiteral)
                   /\ UNCHANGED <<maxlines, save_directory>>
              ELSE IF lines < 1
              THEN /\ maxlines' = lines
                   /\ Raise(MsgMaxlines)
                   /\ UNCHANGED save_directory
              ELSE /\ maxlines' = lines
                   /\ save_directory' = DefaultSaveDirectory
                   /\ pc' = "run"
                   /\ UNCHANGED error
    /\ UNCHANGED <<args, custom_charset, filename, codes_count, codes_length,
                   charset, codes_set, prefix, suffix, codes_generated, code,
                   progress, codes_list, file_index, dirs, files, probe>>

(***************************************************************************)
(* CodeGenerator.__generate_codes: the capacity check, then one action per *)
(* iteration of the sampling loop.                                         *)
(***************************************************************************)
GenerateStart ==
    /\ pc = "run"
    /\ IF probability_above_one(Big(codes_count), Len(charset), codes_length)
       THEN /\ Raise(MsgCapacity)
            /\ UNCHANGED codes_generated
       ELSE /\ codes_generated' = 0
            /\ pc' = "sampling"
            /\ UNCHANGED error
    /\ UNCHANGED <<args, custom_charset, filename, codes_count, codes_length,
                   charset, codes_set, prefix, suffix, filename_base,
                   filename_ext, maxlines, save_directory, code, progress,
                   codes_list, file_index, dirs, files, probe>>

\* the candidate built from the characters at positions idx of the charset
Candidate(idx) ==
    LET drawn == [i \in 1..codes_length |-> charset[idx[i]]]
        withPrefix == IF prefix # None THEN prefix \o drawn ELSE drawn
    IN  IF suffix # None THEN withPrefix \o suffix ELSE withPrefix

\* Collect counting a rejected duplicate as generated
Collect_CountsRejected(candidate) ==
    /\ code' = candidate
    /\ codes_generated' = codes_generated + 1
    /\ IF candidate \in codes_set
       THEN UNCHANGED <<codes_set, progress>>
       ELSE /\ codes_set' = codes_set \cup {candidate}
            /\ progress' = Append(progress, codes_generated + 1)

\* Collect reporting progress on a rejected duplicate too
Collect_ReportsRejected(candidate) ==
    /\ code' = candidate
    /\ progress' = Append(progress, Len(progress) + 1)
    /\ IF candidate \in codes_set
       THEN UNCHANGED <<codes_set, codes_generated>>
       ELSE /\ codes_set' = codes_set \cup {candidate}
            /\ codes_generated' = codes_generated + 1

\* the loop body once the candidate is built
Collect(candidate) ==
    /\ code' = candidate
    /\ IF candidate \in codes_set
       THEN UNCHANGED <<codes_set, codes_generated, progress>>
       ELSE /\ codes_set' = codes_set \cup {candidate}
            /\ codes_generated' = codes_generated + 1
            /\ progress' = Append(progress, codes_generated + 1)

\* one iteration in which random.choice returns the positions idx
Draw(idx) ==
    /\ pc = "sampling"
    /\ codes_generated < codes_count
    /\ idx \in [1..codes_length -> 1..Len(charset)]
    /\ Collect(Candidate(idx))
    /\ UNCHANGED <<args, pc, custom_charset, filename, codes_count, codes_length,
                   charset, prefix, suffix, filename_base, filename_ext, maxlines,
                   save_directory, codes_list, file_index, dirs, files, error,
                   probe>>

Sample == \E idx \in [1..codes_length -> 1..Len(charset)] : Draw(idx)

LoopExit ==
    /\ pc = "sampling"
    /\ ~(codes_generated < codes_count)
    /\ pc' = "save"
    /\ UNCHANGED <<args, custom_charset, filename, codes_count, codes_length,
                   charset, codes_set, prefix, suffix, filename_base,
                   filename_ext, maxlines, save_directory, codes_generated, code,
                   progress, codes_list, file_index, dirs, files, error, probe>>

(***************************************************************************)
(* CodeGenerator.__save_codes: the directory, the list and the number of   *)
(* files, then one action per file.                                        *)
(***************************************************************************)
\* the orders list(a_set) can yield
Orders(S) == {l \in [1..Cardinality(S) -> S] : \A i, j \in DOMAIN l : l[i] = l[j] => i = j}

num_files(list, lines) == ((Len(list) - 1) \div lines) + 1

output_file_name(index, count) ==
    IF count > 1
    THEN filename_base \o <<"_">> \o Decimal(index + 1) \o filename_ext
    ELSE filename_base \o filename_ext

\* the rows of file `index`: codes_list[start_index:end_index], each row the
\* fields code.split()
file_rows(list, index, lines) ==
    LET start_index == index * lines
        end_index == (index + 1) * lines
        part == SubSeq(list, start_index + 1, Min(end_index, Len(list)))
    IN  [i \in DOMAIN part |-> split(part[i])]

SaveStart ==
    /\ pc = "save"
    /\ dirs' = IF save_directory \notin dirs THEN dirs \cup {save_directory} ELSE dirs
    /\ codes_list' \in Orders(codes_set)
    /\ file_index' = 0
    /\ pc' = "saving"
    /\ UNCHANGED <<args, custom_charset, filename, codes_count, codes_length,
                   charset, codes_set, prefix, suffix, filename_base,
                   filename_ext, maxlines, save_directory, codes_generated, code,
                   progress, files, error, probe>>

\* one iteration: the file is written, or open/write raises IOError after
\* `written` rows (-1: the file could not be opened)
WriteFile(written) ==
    /\ pc = "saving"
    /\ file_index < num_files(codes_list, maxlines)
    /\ LET name == output_file_name(file_index, num_files(codes_list, maxlines))
           file_path == path_join(save_directory, name)
           rows == file_rows(codes_list, file_index, maxlines)
       IN  /\ written \in -1..Len(rows)
           /\ files' = IF written = -1 THEN files
                       ELSE (file_path :> SubSeq(rows, 1, written)) @@ files
           /\ IF written = Len(rows)
              THEN /\ file_index' = file_index + 1
                   /\ UNCHANGED <<pc, error>>
              ELSE /\ Raise(MsgWrite)
                   /\ UNCHANGED file_index
    /\ UNCHANGED <<args, custom_charset, filename, codes_count, codes_length,
                   charset, codes_set, prefix, suffix, filename_base,
                   filename_ext, maxlines, save_directory, codes_generated, code,
                   progress, codes_list, dirs, probe>>

SaveFile == \E written \in -1..MaxCount : WriteFile(written)

SaveReturn ==
    /\ pc = "saving"
    /\ ~(file_index < num_files(codes_list, maxlines))
    /\ pc' = "done"
    /\ UNCHANGED <<args, custom_charset, filename, codes_count, codes_length,
                   charset, codes_set, prefix, suffix, filename_base,
                   filename_ext, maxlines, save_directory, codes_generated, code,
                   progress, codes_list, file_index, dirs, files, error, probe>>

(***************************************************************************)
(* The state before main() runs / before the object is constructed.        *)
(***************************************************************************)
Blank ==
    /\ filename = None
    /\ codes_count = 0
    /\ codes_length = 0
    /\ charset = <<>>
    /\ codes_set = {}
    /\ prefix = None
    /\ suffix = None
    /\ filename_base = <<>>
    /\ filename_ext = <<>>
    /\ maxlines = 0
    /\ save_directory = <<>>
    /\ codes_generated = 0
    /\ code = NoCode
    /\ progress = <<>>
    /\ codes_list = <<>>
    /\ file_index = 0
    /\ files = <<>>
    /\ error = ""

NoProbe == [chars_number |-> 0, codes_length |-> 0, codes_count |-> <<>>, raised |-> "-"]

(***************************************************************************)
(* The runs of main().  The character sets are small ones, so that the     *)
(* codes of a run can be enumerated: custom sets, and named sets cut down  *)
(* by omit.                                                                *)
(***************************************************************************)
Config(name, omit, add, custom) ==
    [charset |-> name, omit |-> omit, add |-> add, custom_chars |-> custom]

AllBut(s, keep) == SelectSeq(s, LAMBDA c : c \notin keep)

CharsetConfigs ==
    { Config("custom", None, None, <<"a", "b">>),
      Config("custom", None, <<"a">>, <<"a">>),
      Config("custom", None, <<"a">>, <<"a", "b">>),
      Config("custom", <<"b">>, None, <<"a", " ", "b">>),
      Config("custom", None, None, <<>>),
      Config("custom", None, None, <<"a", "a">>),
      Config("numeric", AllBut(digits, {"0", "1"}), None, None),
      Config("numeric", AllBut(digits, {"0"}), None, None),
      Config("numeric", digits, None, None),
      Config("recommended", AllBut(RECOMMENDED_CHARS, {"2"}), <<"A">>, None) }

\* prefix, suffix, --filename and whether the save directory exists already
Settings ==
    { [prefix |-> None, suffix |-> None, filename |-> None, dir_exists |-> FALSE],
      [prefix |-> <<"X", "-">>, suffix |-> None, filename |-> <<"o", "u", "t">>,
       dir_exists |-> TRUE],
      [prefix |-> <<"A", " ">>, suffix |-> <<"\n">>,
       filename |-> <<"o", ".", "t", "x", "t">>, dir_exists |-> FALSE] }

CountArgs == {Decimal(k) : k \in 0..MaxCount} \cup {<<"-", "1">>, <<NotAnInt>>, None}

LengthArgs == {Decimal(k) : k \in 0..MaxLength} \cup {<<NotAnInt>>}

\* --maxlines as typed; argparse (type=int) hands build_file its int() value
MaxlinesArgs == {None} \cup {Decimal(k) : k \in 0..MaxCount}

MainArgs ==
    { [count |-> c, length |-> l, charset |-> cfg.charset, case |-> "upper",
       omit |-> cfg.omit, add |-> cfg.add, custom_chars |-> cfg.custom_chars,
       prefix |-> st.prefix, suffix |-> st.suffix, filename |-> st.filename,
       maxlines |-> m, dir_exists |-> st.dir_exists] :
      c \in CountArgs, l \in LengthArgs, cfg \in CharsetConfigs,
      st \in Settings, m \in MaxlinesArgs }

\* the save directory may exist before the run
InitialDirs == IF args.dir_exists THEN {DefaultSaveDirectory} ELSE {}

Init ==
    /\ args \in MainArgs
    /\ pc = "main"
    /\ custom_charset = None
    /\ dirs = InitialDirs
    /\ probe = NoProbe
    /\ Blank

Next ==
    \/ MainStart
    \/ Construct
    \/ BuildCharacterSet
    \/ BuildFile
    \/ GenerateStart
    \/ Sample
    \/ LoopExit
    \/ SaveStart
    \/ SaveFile
    \/ SaveReturn

Spec == Init /\ [][Next]_vars

(***************************************************************************)
(* The runs of main() under the fairness the sampling claim assumes: the   *)
(* program keeps running, and random.choice keeps returning every tuple of *)
(* positions.                                                              *)
(***************************************************************************)
Draws == UNION {[1..l -> 1..MaxChars] : l \in 1..MaxLength}

Deterministic ==
    \/ MainStart
    \/ Construct
    \/ BuildCharacterSet
    \/ BuildFile
    \/ GenerateStart
    \/ LoopExit
    \/ SaveStart
    \/ SaveFile
    \/ SaveReturn

Fairness ==
    /\ WF_vars(Deterministic)
    /\ \A idx \in Draws : WF_vars(Draw(idx))

\* the runs of one or two codes without affixes, with the default file name
\* and one file
FairArgs ==
    { a \in MainArgs : /\ a.count \in {<<"1">>, <<"2">>}
                       /\ a.length \in {<<"1">>, <<"2">>}
                       /\ a.prefix = None /\ a.suffix = None
                       /\ a.filename = None /\ a.maxlines = None
                       /\ ~a.dir_exists }

InitFair ==
    /\ args \in FairArgs
    /\ pc = "main"
    /\ custom_charset = None
    /\ dirs = InitialDirs
    /\ probe = NoProbe
    /\ Blank

SpecFair == InitFair /\ [][Next]_vars /\ Fairness

(***************************************************************************)
(* build_character_set alone, called on a fresh object with any arguments: *)
(* every charset and case name (one invalid name each), every omit string  *)
(* up to MaxArgLen characters over BuildChars, every add string of         *)
(* printable characters up to that length and the unprintable one, and     *)
(* custom strings with and without repeated and unprintable characters.    *)
(***************************************************************************)
BuildChars == {"2", "a", BEL}

Strings(chars, n) == UNION {[1..k -> chars] : k \in 0..n}

BuildStrings == {None} \cup Strings(BuildChars, MaxArgLen)

AddStrings == {None, <<BEL>>} \cup Strings(BuildChars \ {BEL}, MaxArgLen)

CustomStrings ==
    { None, <<>>, <<"2">>, <<"2", "a">>, <<"2", "2">>, <<"a", "2", "a">>,
      <<BEL>>, <<"2", BEL>> }

BuildArgs ==
    { [count |-> <<"1">>, length |-> <<"1">>, charset |-> name, case |-> case,
       omit |-> omit, add |-> add, custom_chars |-> custom,
       prefix |-> None, suffix |-> None, filename |-> None, maxlines |-> None,
       dir_exists |-> FALSE] :
      name \in {"recommended", "numeric", "alpha", "alphanumeric", "custom", "hex"},
      case \in {"upper", "lower", "mixed", "title"},
      omit \in BuildStrings, add \in AddStrings, custom \in CustomStrings }

InitBuild ==
    /\ args \in BuildArgs
    /\ pc = "build_character_set"
    /\ custom_charset = args.custom_chars
    /\ dirs = InitialDirs
    /\ probe = NoProbe
    /\ Blank

NextBuild == BuildCharacterSet

SpecBuild == InitBuild /\ [][NextBuild]_vars

(***************************************************************************)
(* The capacity check alone, on counts around chars_number ** length that  *)
(* the ints of the other specifications cannot hold.                       *)
(***************************************************************************)
Probes ==
    { [chars_number |-> n, codes_length |-> l, codes_count |-> c, raised |-> "-"] :
      n \in 1..MaxProbeChars, l \in 1..MaxProbeLength,
      c \in {Big(k) : k \in 1..MaxCount} }
    \cup
    { [chars_number |-> n, codes_length |-> l,
       codes_count |-> BigMulAdd(combinations(n, l), 1, d), raised |-> "-"] :
      n \in 1..MaxProbeChars, l \in 1..MaxProbeLength, d \in 0..MaxExcess }

InitProbe ==
    /\ args = [dir_exists |-> FALSE]
    /\ pc = "run"
    /\ custom_charset = None
    /\ dirs = InitialDirs
    /\ probe \in Probes
    /\ Blank

\* the first statements of __generate_codes on the probe's numbers
CheckProbability ==
    /\ pc = "run"
    /\ probe # NoProbe
    /\ probe' = [probe EXCEPT !.raised =
                    IF probability_above_one(probe.codes_count, probe.chars_number,
                                             probe.codes_length)
                    THEN "yes" ELSE "no"]
    /\ pc' = IF probe'.raised = "yes" THEN "done" ELSE "sampling"
    /\ UNCHANGED <<args, custom_charset, filename, codes_count, codes_length,
                   charset, codes_set, prefix, suffix, filename_base,
                   filename_ext, maxlines, save_directory, codes_generated, code,
                   progress, codes_list, file_index, dirs, files, error>>

NextProbe == CheckProbability

SpecProbe == InitProbe /\ [][NextProbe]_vars

(***************************************************************************)
(* Properties.                                                              *)
(***************************************************************************)
AffixLen(a) == IF a = None THEN 0 ELSE Len(a)

Succeeded == pc = "done" /\ error = ""

\* the cells (file, row number) of the files written
Cells == UNION {{<<p, i>> : i \in DOMAIN files[p]} : p \in DOMAIN files}

\* ceil(n / m) for n >= 1, m >= 1
CeilDiv(n, m) == CHOOSE k \in 1..n : k * m >= n /\ (k - 1) * m < n

\* the paths <dir>/<base>_<N><ext>, N = 1..k, or <dir>/<base><ext> for k = 1
PlannedPaths(k) ==
    IF k = 1 THEN {path_join(save_directory, filename_base \o filename_ext)}
    ELSE {path_join(save_directory,
                    filename_base \o <<"_">> \o Decimal(N) \o filename_ext) :
          N \in 1..k}

\* C1: whenever __generate_codes returns on a freshly constructed generator,
\* the code set holds exactly codes_count strings (distinct, being a set), each
\* of length codes_length + len(prefix) + len(suffix).
C1_GenerateReturnsCountCodes ==
    pc = "save" =>
        /\ Cardinality(codes_set) = codes_count
        /\ \A c \in codes_set :
              Len(c) = codes_length + AffixLen(prefix) + AffixLen(suffix)

\* C1 witness: generation returned several codes carrying a prefix and a
\* suffix, from a character set that add extended with a repeated character.
C1_Witness ==
    /\ pc = "save"
    /\ codes_count >= 2
    /\ prefix # None
    /\ suffix # None
    /\ HasDuplicates(charset)

\* C2: once the capacity check has passed (the loop is entered only with a
\* non-empty character set and probability <= 1), the sampling loop ends, given
\* that every tuple of positions keeps being drawn.
C2_SamplingTerminates == (pc = "sampling") ~> (pc = "save")

\* C3: the capacity error is raised exactly when
\* codes_count > chars_number ** codes_length.
C3_CapacityErrorIffTooMany ==
    probe.raised # "-" =>
        (probe.raised = "yes" <=>
            BigLess(combinations(probe.chars_number, probe.codes_length),
                    probe.codes_count))

\* C4: a run that ended in a configuration or capacity error has sampled no
\* candidate, created no directory and written no file; and files are written
\* only once generation has completed with codes_count codes.
C4_ErrorsPrecedeSamplingAndFiles ==
    /\ (error \notin {"", MsgWrite}) =>
           /\ files = <<>>
           /\ dirs = InitialDirs
           /\ codes_set = {}
           /\ code = NoCode
    /\ (pc = "saving" \/ files # <<>>) =>
           /\ Cardinality(codes_set) = codes_count
           /\ codes_generated = codes_count

\* C4 witness: the run ended in the capacity error.
C4_Witness == pc = "done" /\ error = MsgCapacity /\ ~args.dir_exists

\* C5: after __save_codes returns, there are ceil(n / maxlines) files, each
\* with 1..maxlines rows, every code is exactly one row of exactly one file,
\* and the files are named <base>_<N><ext> (N = 1..) when n > maxlines and
\* <base><ext> otherwise.
C5_SavePlan ==
    Succeeded =>
        LET n == Cardinality(codes_set)
            k == CeilDiv(n, maxlines)
        IN  /\ Cardinality(DOMAIN files) = k
            /\ \A p \in DOMAIN files : Len(files[p]) >= 1 /\ Len(files[p]) <= maxlines
            /\ \A c \in codes_set :
                  Cardinality({cell \in Cells : files[cell[1]][cell[2]] = <<c>>}) = 1
            /\ DOMAIN files = PlannedPaths(k)
            /\ (k > 1 <=> n > maxlines)

\* The plan of C5 with the rows as the program writes them: code number i of
\* codes_list yields row ((i-1) mod maxlines)+1 of file ((i-1) div maxlines)+1,
\* the fields being code.split().
SavePlanOfRows ==
    Succeeded =>
        LET n == Cardinality(codes_set)
            k == CeilDiv(n, maxlines)
            PathOf(N) == path_join(save_directory,
                             IF k = 1 THEN filename_base \o filename_ext
                             ELSE filename_base \o <<"_">> \o Decimal(N) \o filename_ext)
        IN  /\ Cardinality(DOMAIN files) = k
            /\ DOMAIN files = PlannedPaths(k)
            /\ \A p \in DOMAIN files : Len(files[p]) >= 1 /\ Len(files[p]) <= maxlines
            /\ Cardinality(Cells) = n
            /\ \A i \in 1..n :
                  files[PathOf(((i - 1) \div maxlines) + 1)][((i - 1) % maxlines) + 1]
                      = split(codes_list[i])

\* C6: every row written consists of a single field, which is a code of the
\* code set.
C6_RowHoldsOneCode ==
    \A cell \in Cells :
        /\ Len(files[cell[1]][cell[2]]) = 1
        /\ files[cell[1]][cell[2]][1] \in codes_set

BuildSucceeded == pc = "build_file"

BuildFailed == pc = "done" /\ error # ""

\* C7: after a successful build_character_set the character set is non-empty
\* and holds no character twice.
C7_CharsetNonEmptyNoDuplicates ==
    BuildSucceeded => (charset # <<>> /\ ~HasDuplicates(charset))

OrEmpty(s) == IF s = None THEN <<>> ELSE s

\* the base set selected by the charset name
BaseOf(a) == SelectBase(<<>>, a.charset, a.case, a.custom_chars).charset

\* the position of a character in a sequence without repetitions
PositionIn(s, c) == CHOOSE i \in DOMAIN s : s[i] = c

\* C8: a successful build yields the base characters that do not occur in
\* omit, all of them, once each and in the order of the base set, followed by
\* the characters of add as given (repetitions included); a character both
\* omitted and added is therefore present.
C8_OmitThenAdd ==
    BuildSucceeded =>
        LET base == BaseOf(args)
            om == Range(OrEmpty(args.omit))
            ad == OrEmpty(args.add)
            k == Len(charset) - Len(ad)
            kept == SubSeq(charset, 1, k)
        IN  /\ k >= 0
            /\ SubSeq(charset, k + 1, Len(charset)) = ad
            /\ Range(kept) = Range(base) \ om
            /\ k = Cardinality(Range(base) \ om)
            /\ \A i, j \in 1..k :
                  i < j => PositionIn(base, kept[i]) < PositionIn(base, kept[j])
            /\ \A c \in om \cap Range(ad) : c \in Range(charset)

\* C8 witness: digits with "2" omitted and "2", "a" added.
C8_Witness ==
    /\ BuildSucceeded
    /\ args.charset = "numeric"
    /\ args.omit = <<"2">>
    /\ args.add = <<"2", "a">>

Unprintable(s) == s # None /\ InvalidChars(s) # <<>>

\* the alphabet is empty after omit, then add
EmptyAfterOmitAdd(a) ==
    /\ Range(BaseOf(a)) \subseteq Range(OrEmpty(a.omit))
    /\ OrEmpty(a.add) = <<>>

\* C9 as stated: build_character_set fails whenever the name is "custom" and
\* the custom characters are empty or missing, or the custom characters repeat
\* a character, or a custom, omit or add character is unprintable, or the
\* resulting alphabet is empty.
C9_FailsAsStated ==
    (pc # "build_character_set") =>
        (( \/ (args.charset = "custom" /\ ~Truthy(custom_charset))
           \/ (custom_charset # None /\ HasDuplicates(custom_charset))
           \/ Unprintable(custom_charset)
           \/ Unprintable(args.omit)
           \/ Unprintable(args.add)
           \/ (SelectBase(<<>>, args.charset, args.case, custom_charset).error = ""
               /\ EmptyAfterOmitAdd(args)) )
         => BuildFailed)

\* C9 amended: the conditions on the custom characters apply when the charset
\* name is "custom"; with another name the custom characters are not read.
C9_FailsWhenCustomIsUsed ==
    (pc # "build_character_set") =>
        (( \/ (args.charset = "custom" /\ ~Truthy(custom_charset))
           \/ (args.charset = "custom" /\ custom_charset # None
                                       /\ HasDuplicates(custom_charset))
           \/ (args.charset = "custom" /\ Unprintable(custom_charset))
           \/ Unprintable(args.omit)
           \/ Unprintable(args.add)
           \/ (SelectBase(<<>>, args.charset, args.case, custom_charset).error = ""
               /\ EmptyAfterOmitAdd(args)) )
         => BuildFailed)

\* C9 witness: the build failed because omit removed every character.
C9_Witness ==
    /\ BuildFailed
    /\ error = "Used character set is empty."
    /\ args.charset = "custom"
    /\ args.omit # None

\* C10: the number of collected codes equals the counter and the number of
\* progress reports, never exceeds codes_count and never decreases; an
\* iteration that inserts raises it by one and reports it, an iteration that
\* rejects a duplicate changes neither the set nor the reports.
C10_CountIsMonotonic ==
    /\ [](/\ Cardinality(codes_set) = codes_generated
          /\ codes_generated <= Max(codes_count, 0)
          /\ progress = [i \in 1..codes_generated |-> i])
    /\ [][/\ codes_set \subseteq codes_set'
          /\ (pc = "sampling" /\ pc' = "sampling" /\ code' \in codes_set) =>
                 /\ codes_set' = codes_set
                 /\ codes_generated' = codes_generated
                 /\ progress' = progress
          /\ (pc = "sampling" /\ pc' = "sampling" /\ code' \notin codes_set) =>
                 /\ codes_set' = codes_set \cup {code'}
                 /\ codes_generated' = codes_generated + 1
                 /\ progress' = Append(progress, codes_generated + 1)]_vars

\* C10 witness: the loop has inserted codes_count >= 2 codes, one report each.
C10_Witness ==
    /\ pc = "sampling"
    /\ codes_count >= 2
    /\ codes_generated = codes_count
    /\ Len(progress) = codes_count
    /\ code \in codes_set

====
